---- MODULE Spec2Model ----
(***************************************************************************)
(* Model of the snow_edit text buffer and viewport engine:                 *)
(*   Line   (src/src/editor/view/line.rs)   grapheme fragments of one line *)
(*   Buffer (src/src/editor/view/buffer.rs) the lines, the file, dirty     *)
(*   View   (src/src/editor/view.rs)        cursor, scroll offset, size,   *)
(*                                          the rows it draws              *)
(*   Editor (src/src/editor.rs)             startup, Save, the message bar *)
(*                                                                         *)
(* Indices are 0-based as in the source; a TLA+ sequence s holds the       *)
(* element with source index i at s[i + 1].  usize arithmetic is modelled  *)
(* on the naturals: saturating_sub is cut off at 0, and saturating_add     *)
(* never saturates because every quantity stays far below 2^64.            *)
(***************************************************************************)
EXTENDS Integers, Sequences, FiniteSets, TLC

\* ------------------------------------------------------------------ bounds
\* most lines a document may hold
MaxLines == 2
\* most code points a document may hold, over all its lines
MaxChars == 3
\* the tallest viewport a Resize may ask for
MaxRows == 3
\* the widest viewport a Resize may ask for
MaxCols == 2

\* ------------------------------------------------------------ the alphabet
\* Three code points, one per behaviour of the segmentation and width
\* tables the source takes from unicode_segmentation and unicode_width:
\*   "a"  an ordinary letter: never joins a neighbour, 1 column
\*   "L"  a Hangul leading consonant (U+1100): joins a following L or V,
\*        2 columns
\*   "V"  a Hangul vowel (U+1161): joins a preceding L or V, 0 columns
Chars == {"a", "L", "V"}

\* Two more code points reach a document only from a file:
\*   "CR" a carriage return (U+000D): a control character, a cluster of its
\*        own (GB4, GB5), 0 columns
\*   "LF" a line feed (U+000A): ends a line of a file, never part of a Line

Min(a, b) == IF a < b THEN a ELSE b

Max(a, b) == IF a > b THEN a ELSE b

saturating_sub(a, b) == Max(a - b, 0)

\* UnicodeWidthStr::width of one code point
CharWidth(c) == CASE c = "a" -> 1 [] c = "L" -> 2 [] c = "V" -> 0 [] c = "CR" -> 0

RECURSIVE StrWidth(_)
\* UnicodeWidthStr::width of a string: the sum over its code points
StrWidth(s) == IF s = <<>> THEN 0 ELSE CharWidth(Head(s)) + StrWidth(Tail(s))

\* no extended-grapheme-cluster boundary between x and y
\* (UAX #29 GB6: L x (L | V),  GB7: V x V; GB999 breaks everywhere else)
NoBreak(x, y) == \/ x = "L" /\ y \in {"L", "V"}
                 \/ x = "V" /\ y = "V"

RECURSIVE graphemes(_)
\* str.graphemes(true): the string cut into extended grapheme clusters
graphemes(s) ==
    IF s = <<>> THEN <<>>
    ELSE LET rest == graphemes(Tail(s))
         IN  IF rest # <<>> /\ NoBreak(Head(s), Head(Head(rest)))
             THEN << <<Head(s)>> \o Head(rest) >> \o Tail(rest)
             ELSE << <<Head(s)>> >> \o rest

\* ---------------------------------------------------------------- line.rs
Half == 1

Full == 2

\* Line::replace_character: the substitute glyph of a cluster, or "none".
\* No cluster of the alphabet is " " or "\t" and none is blank with a
\* positive width, so the zero-width arm (the box for a lone control
\* character, the dot marker otherwise) and the default arm remain.
replace_character(for_str) ==
    IF StrWidth(for_str) = 0
    THEN IF for_str = <<"CR">> THEN "box" ELSE "dot"
    ELSE "none"
\* the closure of str_to_fragments with a slip: a cluster with a replacement
\* glyph is given no width
TextFragment_flat(grapheme) ==
    LET replacement == replace_character(grapheme)
    IN  [grapheme       |-> grapheme,
         rendered_width |-> IF replacement # "none" THEN 0
                            ELSE IF StrWidth(grapheme) \in {0, 1} THEN Half
                            ELSE Full,
         replacement    |-> replacement]

\* the closure of Line::str_to_fragments: one TextFragment per cluster
TextFragment(grapheme) ==
    LET replacement == replace_character(grapheme)
    IN  [grapheme       |-> grapheme,
         rendered_width |-> IF replacement # "none" THEN Half
                            ELSE IF StrWidth(grapheme) \in {0, 1} THEN Half
                            ELSE Full,
         replacement    |-> replacement]

str_to_fragments(line_str) ==
    LET gs == graphemes(line_str)
    IN  [i \in 1..Len(gs) |-> TextFragment(gs[i])]

\* Line::from
Line_from(line_str) == str_to_fragments(line_str)

\* Line::default
Line_default == <<>>
RECURSIVE Flat(_)
\* the strings of a sequence, one after the other (String::push_str)
Flat(strings) ==
    IF strings = <<>> THEN <<>> ELSE Head(strings) \o Flat(Tail(strings))

RECURSIVE pushes(_, _, _, _)
\* the loop of Line::get_visible_graphemes over the fragments from display
\* column current_pos on: what it pushes onto the result, one entry per
\* push: an ellipsis for a fragment cut by either edge of the range, else
\* its replacement glyph, else its text
pushes(fragments, current_pos, start, end) ==
    IF fragments = <<>> \/ current_pos >= end THEN <<>>
    ELSE LET fragment == Head(fragments)
             fragment_end == fragment.rendered_width + current_pos
             shown == IF fragment_end > start
                      THEN IF fragment_end > end \/ current_pos < start
                           THEN << <<"ellipsis">> >>
                           ELSE IF fragment.replacement # "none"
                           THEN << <<fragment.replacement>> >>
                           ELSE << fragment.grapheme >>
                      ELSE <<>>
         IN  shown \o pushes(Tail(fragments), fragment_end, start, end)
\* the pushes with a slip: the range is taken one column too wide
visible_pushes_wide(line, start, end) ==
    IF start >= end THEN <<>> ELSE pushes(line, 0, start, end + 1)

\* the pushes with a slip: the start of the range is ignored
visible_pushes_from_zero(line, start, end) ==
    IF start >= end THEN <<>> ELSE pushes(line, 0, 0, end)

\* the pushes of Line::get_visible_graphemes(start..end)
visible_pushes(line, start, end) ==
    IF start >= end THEN <<>> ELSE pushes(line, 0, start, end)

\* Line::get_visible_graphemes(start..end)
get_visible_graphemes(line, start, end) == Flat(visible_pushes(line, start, end))

grapheme_count(line) == Len(line)

RECURSIVE to_string(_)
\* Display for Line: the concatenation of the fragments' source text
to_string(line) ==
    IF line = <<>> THEN <<>> ELSE Head(line).grapheme \o to_string(Tail(line))

RECURSIVE width_until(_, _)
\* the sum of the widths of the first grapheme_index fragments (take() stops
\* at the end of the line)
width_until(line, grapheme_index) ==
    IF grapheme_index = 0 \/ line = <<>> THEN 0
    ELSE Head(line).rendered_width + width_until(Tail(line), grapheme_index - 1)

\* Line::insert_char: rebuild the text with the character before fragment
\* `at` (or at the end when at >= len), then segment it again
Line_insert_char(line, character, at) ==
    LET n == Len(line)
        result == IF at >= n THEN to_string(line) \o <<character>>
                  ELSE to_string(SubSeq(line, 1, at)) \o <<character>>
                       \o to_string(SubSeq(line, at + 1, n))
    IN  str_to_fragments(result)

\* Line::delete: rebuild the text without fragment `at`, then segment again
Line_delete(line, at) ==
    LET n == Len(line)
        result == IF at >= n THEN to_string(line)
                  ELSE to_string(SubSeq(line, 1, at))
                       \o to_string(SubSeq(line, at + 2, n))
    IN  str_to_fragments(result)

\* Line::append
Line_append(line, other) == str_to_fragments(to_string(line) \o to_string(other))
\* split with a slip: the fragment at the split point is lost
Line_split_drops(line, at) ==
    IF at > Len(line) THEN [self |-> line, ret |-> Line_default]
    ELSE [self |-> SubSeq(line, 1, at), ret |-> SubSeq(line, at + 2, Len(line))]

\* Line::split: `self` is what stays in the line, `ret` the returned line;
\* split_off moves the fragments as they are, without segmenting again
Line_split(line, at) ==
    IF at > Len(line) THEN [self |-> line, ret |-> Line_default]
    ELSE [self |-> SubSeq(line, 1, at), ret |-> SubSeq(line, at + 1, Len(line))]

\* -------------------------------------------------------------- buffer.rs
\* A Buffer is [lines, file_info, dirty]; `at` is a Location
\* [grapheme_index, line_index].

\* FileInfo::default: no path
FileInfo_default == [path |-> "None"]

\* FileInfo::from
FileInfo_from(file_name) == [path |-> file_name]

\* Buffer::default
Buffer_default == [lines |-> <<>>, file_info |-> FileInfo_default, dirty |-> FALSE]

height(buf) == Len(buf.lines)

is_empty(buf) == buf.lines = <<>>

\* lines.get(index).map_or(0, Line::grapheme_count)
count_at(lines, index) ==
    IF index < Len(lines) THEN grapheme_count(lines[index + 1]) ELSE 0

\* Vec::remove
RemoveAt(s, index) == SubSeq(s, 1, index) \o SubSeq(s, index + 2, Len(s))

\* Vec::insert
InsertAt(s, index, e) == SubSeq(s, 1, index) \o <<e>> \o SubSeq(s, index + 1, Len(s))
\* insert_char with a slip: dirty is set before the line index is tested
Buffer_insert_char_marks(buf, character, at) ==
    IF at.line_index > height(buf) THEN [buf EXCEPT !.dirty = TRUE]
    ELSE IF at.line_index = height(buf)
    THEN [buf EXCEPT !.lines = Append(@, Line_from(<<character>>)),
                     !.dirty = TRUE]
    ELSE [buf EXCEPT !.lines[at.line_index + 1] =
                         Line_insert_char(@, character, at.grapheme_index),
                     !.dirty = TRUE]

Buffer_insert_char(buf, character, at) ==
    IF at.line_index > height(buf) THEN buf
    ELSE IF at.line_index = height(buf)
    THEN [buf EXCEPT !.lines = Append(@, Line_from(<<character>>)),
                     !.dirty = TRUE]
    ELSE [buf EXCEPT !.lines[at.line_index + 1] =
                         Line_insert_char(@, character, at.grapheme_index),
                     !.dirty = TRUE]
\* delete with a slip: the next line is appended but not removed
Buffer_delete_keeps_next(buf, at) ==
    IF at.line_index < height(buf)
    THEN LET line == buf.lines[at.line_index + 1]
         IN  IF /\ at.grapheme_index >= grapheme_count(line)
                /\ height(buf) > at.line_index + 1
             THEN [buf EXCEPT !.lines[at.line_index + 1] =
                                  Line_append(@, buf.lines[at.line_index + 2]),
                              !.dirty = TRUE]
             ELSE IF at.grapheme_index < grapheme_count(line)
             THEN [buf EXCEPT !.lines[at.line_index + 1] =
                                  Line_delete(@, at.grapheme_index),
                              !.dirty = TRUE]
             ELSE buf
    ELSE buf
\* delete with a slip: joining two lines leaves the dirty flag alone
Buffer_delete_joins_clean(buf, at) ==
    IF at.line_index < height(buf)
    THEN LET line == buf.lines[at.line_index + 1]
         IN  IF /\ at.grapheme_index >= grapheme_count(line)
                /\ height(buf) > at.line_index + 1
             THEN LET next_line == buf.lines[at.line_index + 2]
                      removed == RemoveAt(buf.lines, at.line_index + 1)
                  IN  [buf EXCEPT !.lines = [removed EXCEPT ![at.line_index + 1] =
                                                 Line_append(@, next_line)]]
             ELSE IF at.grapheme_index < grapheme_count(line)
             THEN [buf EXCEPT !.lines[at.line_index + 1] =
                                  Line_delete(@, at.grapheme_index),
                              !.dirty = TRUE]
             ELSE buf
    ELSE buf

Buffer_delete(buf, at) ==
    IF at.line_index < height(buf)
    THEN LET line == buf.lines[at.line_index + 1]
         IN  IF /\ at.grapheme_index >= grapheme_count(line)
                /\ height(buf) > at.line_index + 1
             THEN LET next_line == buf.lines[at.line_index + 2]
                      removed == RemoveAt(buf.lines, at.line_index + 1)
                  IN  [buf EXCEPT !.lines = [removed EXCEPT ![at.line_index + 1] =
                                                 Line_append(@, next_line)],
                                  !.dirty = TRUE]
             ELSE IF at.grapheme_index < grapheme_count(line)
             THEN [buf EXCEPT !.lines[at.line_index + 1] =
                                  Line_delete(@, at.grapheme_index),
                              !.dirty = TRUE]
             ELSE buf
    ELSE buf
\* insert_newline with a slip: the new line goes in above the split line
Buffer_insert_newline_above(buf, at) ==
    IF at.line_index = height(buf)
    THEN [buf EXCEPT !.lines = Append(@, Line_default), !.dirty = TRUE]
    ELSE IF at.line_index < height(buf)
    THEN LET sp == Line_split(buf.lines[at.line_index + 1], at.grapheme_index)
         IN  [buf EXCEPT !.lines = InsertAt([@ EXCEPT ![at.line_index + 1] = sp.self],
                                            at.line_index, sp.ret),
                         !.dirty = TRUE]
    ELSE buf

Buffer_insert_newline(buf, at) ==
    IF at.line_index = height(buf)
    THEN [buf EXCEPT !.lines = Append(@, Line_default), !.dirty = TRUE]
    ELSE IF at.line_index < height(buf)
    THEN LET sp == Line_split(buf.lines[at.line_index + 1], at.grapheme_index)
         IN  [buf EXCEPT !.lines = InsertAt([@ EXCEPT ![at.line_index + 1] = sp.self],
                                            at.line_index + 1, sp.ret),
                         !.dirty = TRUE]
    ELSE buf

RECURSIVE str_lines(_)
\* str::lines: the text cut after every "LF"; a line that ends with "LF"
\* loses it and one "CR" right before it, the rest after the last "LF" is a
\* line as it stands (if it is not empty)
str_lines(s) ==
    IF s = <<>> THEN <<>>
    ELSE IF \E i \in 1..Len(s) : s[i] = "LF"
    THEN LET i == CHOOSE k \in 1..Len(s) :
                      s[k] = "LF" /\ \A j \in 1..(k - 1) : s[j] # "LF"
             piece == SubSeq(s, 1, i - 1)
             line  == IF piece # <<>> /\ piece[Len(piece)] = "CR"
                      THEN SubSeq(piece, 1, Len(piece) - 1)
                      ELSE piece
         IN  <<line>> \o str_lines(SubSeq(s, i + 1, Len(s)))
    ELSE <<s>>

\* Buffer::load of the file `file` ([exists, text]) under the name
\* file_name: [result, buf]; read_to_string fails when there is no such
\* file or when reading it fails (io_ok false)
Buffer_load(file_name, file, io_ok) ==
    IF file.exists /\ io_ok
    THEN LET values == str_lines(file.text)
         IN  [result |-> "Ok",
              buf    |-> [lines     |-> [i \in 1..Len(values) |-> Line_from(values[i])],
                          file_info |-> FileInfo_from(file_name),
                          dirty     |-> FALSE]]
    ELSE [result |-> "Err", buf |-> Buffer_default]

RECURSIVE written(_)
\* what writeln!(file, "{line}") writes for the lines in order: the text of
\* each line and one "LF"
written(lines) ==
    IF lines = <<>> THEN <<>>
    ELSE to_string(Head(lines)) \o <<"LF">> \o written(Tail(lines))

\* Buffer::save: [result, buf, file], file being the file under the
\* buffer's path afterwards.  File::create succeeds or not (create_ok) and
\* empties the file; writeln! succeeds for the first lines_ok lines.
Buffer_save(buf, file, create_ok, lines_ok) ==
    IF buf.file_info.path # "None"
    THEN IF ~create_ok
         THEN [result |-> "Err", buf |-> buf, file |-> file]
         ELSE IF lines_ok < height(buf)
         THEN [result |-> "Err", buf |-> buf,
               file |-> [exists |-> TRUE,
                         text |-> written(SubSeq(buf.lines, 1, lines_ok))]]
         ELSE [result |-> "Ok", buf |-> [buf EXCEPT !.dirty = FALSE],
               file |-> [exists |-> TRUE, text |-> written(buf.lines)]]
    ELSE [result |-> "Ok", buf |-> buf, file |-> file]

\* ---------------------------------------------------------------- view.rs
\* A View is [buffer, needs_redraw, size, text_location, scroll_offset].
\* ------------------------------------------------------------- editor.rs
\* the Quit commands a modified document takes
QUIT_TIMES == 3

\* the warning of a Quit that is held back
warning(more) ==
    IF more = 1
    THEN "WARNING! File has unsaved changes. Press Ctrl-D 1 more times to quit."
    ELSE "WARNING! File has unsaved changes. Press Ctrl-D 2 more times to quit."

\* handle_quit with a slip: the Quit before the last one already quits
handle_quit_early(is_modified, editor) ==
    IF ~is_modified \/ editor.quit_times + 1 >= QUIT_TIMES - 1
    THEN [editor EXCEPT !.should_quit = TRUE]
    ELSE [editor EXCEPT !.message = warning(QUIT_TIMES - editor.quit_times - 1),
                        !.quit_times = editor.quit_times + 1]

\* the fields of the Editor a Quit changes: [quit_times, should_quit, message]
handle_quit(is_modified, editor) ==
    IF ~is_modified \/ editor.quit_times + 1 = QUIT_TIMES
    THEN [editor EXCEPT !.should_quit = TRUE]
    ELSE IF is_modified
    THEN [editor EXCEPT !.message = warning(QUIT_TIMES - editor.quit_times - 1),
                        !.quit_times = (editor.quit_times + 1) % 256]
    ELSE editor

reset_quit_times(editor) ==
    IF editor.quit_times > 0
    THEN [editor EXCEPT !.quit_times = 0, !.message = ""]
    ELSE editor

\* Location::default
Location_default == [grapheme_index |-> 0, line_index |-> 0]

\* Position::default
Position_default == [col |-> 0, row |-> 0]

\* View::new; the terminal reports any size, or none (then Size::default)
View_new(terminal_size) ==
    [buffer        |-> Buffer_default,
     needs_redraw  |-> TRUE,
     size          |-> terminal_size,
     text_location |-> Location_default,
     scroll_offset |-> Position_default]

text_location_to_position(v) ==
    LET row == v.text_location.line_index
    IN  [col |-> IF row < height(v.buffer)
                 THEN width_until(v.buffer.lines[row + 1],
                                  v.text_location.grapheme_index)
                 ELSE 0,
         row |-> row]

\* snap_to_valid_grapheme with a slip: a shorter line resets the index to 0
snap_to_valid_grapheme_reset(v) ==
    [v EXCEPT !.text_location.grapheme_index =
        IF /\ v.text_location.line_index < height(v.buffer)
           /\ @ <= grapheme_count(v.buffer.lines[v.text_location.line_index + 1])
        THEN @
        ELSE 0]

snap_to_valid_grapheme(v) ==
    [v EXCEPT !.text_location.grapheme_index =
        IF v.text_location.line_index < height(v.buffer)
        THEN Min(grapheme_count(v.buffer.lines[v.text_location.line_index + 1]), @)
        ELSE 0]

\* snap_to_valid_line with a slip: the line index is not clamped
snap_to_valid_line_unclamped(v) == v

snap_to_valid_line(v) ==
    [v EXCEPT !.text_location.line_index = Min(@, height(v.buffer))]

move_up(v, step) ==
    snap_to_valid_grapheme(
        [v EXCEPT !.text_location.line_index = saturating_sub(@, step)])

move_down(v, step) ==
    snap_to_valid_line(snap_to_valid_grapheme(
        [v EXCEPT !.text_location.line_index = @ + step]))

move_to_start_of_line(v) == [v EXCEPT !.text_location.grapheme_index = 0]

move_to_end_of_line(v) ==
    [v EXCEPT !.text_location.grapheme_index =
        count_at(v.buffer.lines, v.text_location.line_index)]

\* move_right with a slip: <= for <, so the index passes the line end
move_right_past_end(v) ==
    LET line_width == count_at(v.buffer.lines, v.text_location.line_index)
    IN  IF v.text_location.grapheme_index <= line_width
        THEN [v EXCEPT !.text_location.grapheme_index = @ + 1]
        ELSE move_down(move_to_start_of_line(v), 1)

move_right(v) ==
    LET line_width == count_at(v.buffer.lines, v.text_location.line_index)
    IN  IF v.text_location.grapheme_index < line_width
        THEN [v EXCEPT !.text_location.grapheme_index = @ + 1]
        ELSE move_down(move_to_start_of_line(v), 1)

move_left(v) ==
    IF v.text_location.grapheme_index > 0
    THEN [v EXCEPT !.text_location.grapheme_index = @ - 1]
    ELSE move_to_end_of_line(move_up(v, 1))

\* scroll_vertically with a slip: scrolling down forgets the + 1
scroll_vertically_short(v, to) ==
    IF to < v.scroll_offset.row
    THEN [v EXCEPT !.scroll_offset.row = to, !.needs_redraw = TRUE]
    ELSE IF to >= v.scroll_offset.row + v.size.height
    THEN [v EXCEPT !.scroll_offset.row = saturating_sub(to, v.size.height),
                   !.needs_redraw = TRUE]
    ELSE v

scroll_vertically(v, to) ==
    IF to < v.scroll_offset.row
    THEN [v EXCEPT !.scroll_offset.row = to, !.needs_redraw = TRUE]
    ELSE IF to >= v.scroll_offset.row + v.size.height
    THEN [v EXCEPT !.scroll_offset.row = saturating_sub(to, v.size.height) + 1,
                   !.needs_redraw = TRUE]
    ELSE v
\* scroll_horizontally with a slip: the offset moves, the redraw flag is
\* not set
scroll_horizontally_quiet(v, to) ==
    IF to < v.scroll_offset.col
    THEN [v EXCEPT !.scroll_offset.col = to]
    ELSE IF to >= v.scroll_offset.col + v.size.width
    THEN [v EXCEPT !.scroll_offset.col = saturating_sub(to, v.size.width) + 1]
    ELSE v

scroll_horizontally(v, to) ==
    IF to < v.scroll_offset.col
    THEN [v EXCEPT !.scroll_offset.col = to, !.needs_redraw = TRUE]
    ELSE IF to >= v.scroll_offset.col + v.size.width
    THEN [v EXCEPT !.scroll_offset.col = saturating_sub(to, v.size.width) + 1,
                   !.needs_redraw = TRUE]
    ELSE v

scroll_text_location_into_view(v) ==
    LET p == text_location_to_position(v)
    IN  scroll_horizontally(scroll_vertically(v, p.row), p.col)

Directions == {"Up", "Down", "Left", "Right", "PageUp", "PageDown", "Home", "End"}

move_text_location(v, direction) ==
    LET h == v.size.height
        moved == CASE direction = "Up"       -> move_up(v, 1)
                   [] direction = "Down"     -> move_down(v, 1)
                   [] direction = "Left"     -> move_left(v)
                   [] direction = "Right"    -> move_right(v)
                   [] direction = "PageUp"   -> move_up(v, saturating_sub(h, 1))
                   [] direction = "PageDown" -> move_down(v, saturating_sub(h, 1))
                   [] direction = "Home"     -> move_to_start_of_line(v)
                   [] direction = "End"      -> move_to_end_of_line(v)
    IN  scroll_text_location_into_view(moved)

\* insert_char with a slip: the cursor advances whether or not the grapheme
\* count increased
insert_char_always_right(v, character) ==
    LET v1 == [v EXCEPT !.buffer = Buffer_insert_char(@, character, v.text_location)]
    IN  [move_text_location(v1, "Right") EXCEPT !.needs_redraw = TRUE]

insert_char(v, character) ==
    LET old_len == count_at(v.buffer.lines, v.text_location.line_index)
        v1 == [v EXCEPT !.buffer = Buffer_insert_char(@, character, v.text_location)]
        new_len == count_at(v1.buffer.lines, v.text_location.line_index)
        grapheme_delta == saturating_sub(new_len, old_len)
        v2 == IF grapheme_delta > 0 THEN move_text_location(v1, "Right") ELSE v1
    IN  [v2 EXCEPT !.needs_redraw = TRUE]
\* insert_newline with a slip: the cursor does not move to the new line
insert_newline_stays(v) ==
    [v EXCEPT !.buffer = Buffer_insert_newline(@, v.text_location),
              !.needs_redraw = TRUE]

insert_newline(v) ==
    LET v1 == [v EXCEPT !.buffer = Buffer_insert_newline(@, v.text_location)]
    IN  [move_text_location(v1, "Right") EXCEPT !.needs_redraw = TRUE]

\* View::delete
delete(v) ==
    [v EXCEPT !.buffer = Buffer_delete(@, v.text_location), !.needs_redraw = TRUE]

\* delete_backward with a slip: no move left before the delete
delete_backward_in_place(v) ==
    IF v.text_location.line_index # 0 \/ v.text_location.grapheme_index # 0
    THEN delete(v)
    ELSE v

\* delete_backward with a slip: no test for the document start
delete_backward_unguarded(v) == delete(move_left(v))

delete_backward(v) ==
    IF v.text_location.line_index # 0 \/ v.text_location.grapheme_index # 0
    THEN delete(move_left(v))
    ELSE v

\* resize with a slip: the cursor goes back to the start of its line
resize_to_line_start(v, to) ==
    [scroll_text_location_into_view(
         [v EXCEPT !.size = to, !.text_location.grapheme_index = 0])
     EXCEPT !.needs_redraw = TRUE]

resize(v, to) ==
    [scroll_text_location_into_view([v EXCEPT !.size = to]) EXCEPT !.needs_redraw = TRUE]

\* View::handle_command; a command is [kind, arg]
handle_command(v, command) ==
    CASE command.kind = "Resize"    -> resize(v, command.arg)
      [] command.kind = "Move"      -> move_text_location(v, command.arg)
      [] command.kind = "Insert"    -> insert_char(v, command.arg)
      [] command.kind = "Delete"    -> delete(v)
      [] command.kind = "Backspace" -> delete_backward(v)
      [] command.kind = "Enter"     -> insert_newline(v)
\* load with a slip: a failed load still names the document after the file
View_load_names(v, file_name, file, io_ok) ==
    LET loaded == Buffer_load(file_name, file, io_ok)
    IN  IF loaded.result = "Ok"
        THEN [v EXCEPT !.buffer = loaded.buf, !.needs_redraw = TRUE]
        ELSE [v EXCEPT !.buffer.file_info = FileInfo_from(file_name)]

\* View::load: the View afterwards
View_load(v, file_name, file, io_ok) ==
    LET loaded == Buffer_load(file_name, file, io_ok)
    IN  IF loaded.result = "Ok"
        THEN [v EXCEPT !.buffer = loaded.buf, !.needs_redraw = TRUE]
        ELSE v

\* what View::load returns to Editor::new, which tests it with is_err():
\* the result of Buffer::load
View_load_result(file_name, file, io_ok) == Buffer_load(file_name, file, io_ok).result

\* -------------------------------------------------------------- editor.rs
\* Editor::new with the command line `args` (the file names after the
\* program name): [view, message, result], result being what the load
\* returned, "none" without a file name
Editor_new(terminal_size, args, file, io_ok) ==
    LET v == View_new(terminal_size)
    IN  IF args # <<>>
        THEN [view    |-> View_load(v, args[1], file, io_ok),
              message |-> IF View_load_result(args[1], file, io_ok) = "Err"
                          THEN "ERR: Could not open file"
                          ELSE "HELP: Ctrl-S = save | Ctrl-D = quit",
              result  |-> View_load_result(args[1], file, io_ok)]
        ELSE [view    |-> v,
              message |-> "HELP: Ctrl-S = save | Ctrl-D = quit",
              result  |-> "none"]
\* the length of the banner text "{NAME} editor -- version {VERSION}", in
\* the scale of the viewports of the model
WelcomeLen == 1

\* the banner text, one "w" per character
welcome_message == [i \in 1..WelcomeLen |-> "w"]

\* View::build_welcome_message
build_welcome_message(width) ==
    IF width = 0 THEN <<" ">>
    ELSE LET len == Len(welcome_message)
         IN  IF width <= len THEN <<"~">>
             ELSE LET padding == saturating_sub(saturating_sub(width, len), 1) \div 2
                      full_message == <<"~">> \o [i \in 1..padding |-> " "]
                                      \o welcome_message
                  IN  SubSeq(full_message, 1, Min(width, Len(full_message)))
\* one row of render with a slip: the banner row is tested before the line
render_row_banner_first(v, current_row) ==
    LET top == v.scroll_offset.row
    IN  IF current_row = v.size.height \div 2 /\ top = 0
           /\ height(v.buffer) <= current_row
        THEN build_welcome_message(v.size.width)
        ELSE IF current_row + top < height(v.buffer)
        THEN get_visible_graphemes(v.buffer.lines[current_row + top + 1],
                                   v.scroll_offset.col,
                                   v.scroll_offset.col + v.size.width)
        ELSE <<"~">>

\* one row of View::render
render_row(v, current_row) ==
    LET top == v.scroll_offset.row
    IN  IF current_row + top < height(v.buffer)
        THEN get_visible_graphemes(v.buffer.lines[current_row + top + 1],
                                   v.scroll_offset.col,
                                   v.scroll_offset.col + v.size.width)
        ELSE IF current_row = v.size.height \div 2 /\ is_empty(v.buffer)
        THEN build_welcome_message(v.size.width)
        ELSE <<"~">>
\* render with a slip: the flag is not cleared after the rows are drawn
render_keeps_flag(v) ==
    IF ~v.needs_redraw THEN [view |-> v, printed |-> <<>>]
    ELSE IF v.size.height = 0 \/ v.size.width = 0 THEN [view |-> v, printed |-> <<>>]
    ELSE [view    |-> v,
          printed |-> [i \in 1..v.size.height |-> render_row(v, i - 1)]]

\* View::render: [view, printed], printed being the rows handed to
\* render_line, in order
render(v) ==
    IF ~v.needs_redraw THEN [view |-> v, printed |-> <<>>]
    ELSE IF v.size.height = 0 \/ v.size.width = 0 THEN [view |-> v, printed |-> <<>>]
    ELSE [view    |-> [v EXCEPT !.needs_redraw = FALSE],
          printed |-> [i \in 1..v.size.height |-> render_row(v, i - 1)]]

\* ------------------------------------------------------------- the machine
VARIABLES
    buffer,         \* View.buffer: [lines, file_info, dirty]
    needs_redraw,   \* View.needs_redraw
    size,           \* View.size: [height, width]
    text_location,  \* View.text_location: [grapheme_index, line_index]
    scroll_offset,  \* View.scroll_offset: [col, row]
    last,           \* the command handled last, "New" before the first one
    disk,           \* the file named at startup: [exists, text]
    result,         \* what the last load or save returned: "Ok", "Err", "none"
    message,        \* Editor.message_bar: the text of the current message
    frame,          \* the rows the last step printed, top to bottom
    before,         \* the record of an earlier step: [step, texts, at_end, typed]
    call,           \* the last call of a method of a Line, made directly
    quit_times,     \* Editor.quit_times
    should_quit,    \* Editor.should_quit
    snapshot,       \* the line texts at the last load or successful save
    quits           \* the Quit commands in a row, Resize commands aside

vars == <<buffer, needs_redraw, size, text_location, scroll_offset, last,
          disk, result, message, frame, before,
          call, quit_times, should_quit, snapshot, quits>>

\* what the commands of a View leave alone: the file, the message bar, and
\* the records of the last result, frame and Enter
outside == <<disk, result, message, frame, before>>

\* what only the sections on the Line, on Quit and on the dirty flag
\* change
apart == <<call, quit_times, should_quit, snapshot, quits>>

\* no method of a Line has been called directly
NoCall == [name |-> "none", prev |-> "none", line |-> <<>>, was |-> <<>>,
           at |-> 0, to |-> 0, character |-> "none", tail |-> <<>>,
           ret |-> <<>>, width |-> 0]

\* the View the variables hold
self == [buffer        |-> buffer,
         needs_redraw  |-> needs_redraw,
         size          |-> size,
         text_location |-> text_location,
         scroll_offset |-> scroll_offset]

\* the viewport sizes a terminal reports: Size::default() (no rows and no
\* columns), and one or the most rows by one or the most columns
Sizes == {[height |-> 0, width |-> 0]} \cup [height : {1, MaxRows}, width : {1, MaxCols}]

\* the characters a key press inserts: "a" joins nothing, "L" joins an "L"
\* next to it ("V" reaches a line only from a file)
InsertChars == {"a", "L"}

RECURSIVE CharCount(_)
\* code points in a sequence of lines
CharCount(lines) ==
    IF lines = <<>> THEN 0
    ELSE Len(to_string(Head(lines))) + CharCount(Tail(lines))
\* there is no file of the name given at startup (or no name was given)
NoFile == [exists |-> FALSE, text |-> <<>>]

\* no step is on record
NoEnter == [step |-> 0, texts |-> <<>>, at_end |-> FALSE, typed |-> "none",
            location |-> [grapheme_index |-> 0, line_index |-> 0]]

\* the variables take the fields of View v, after command `name`
Becomes(v, name) ==
    /\ buffer' = v.buffer
    /\ needs_redraw' = v.needs_redraw
    /\ size' = v.size
    /\ text_location' = v.text_location
    /\ scroll_offset' = v.scroll_offset
    /\ last' = name
    /\ UNCHANGED outside
    /\ UNCHANGED apart

Init ==
    \E terminal_size \in Sizes :
        LET v == View_new(terminal_size)
        IN  /\ buffer = v.buffer
            /\ needs_redraw = v.needs_redraw
            /\ size = v.size
            /\ text_location = v.text_location
            /\ scroll_offset = v.scroll_offset
            /\ last = "New"
            /\ disk = NoFile
            /\ result = "none"
            /\ message = "none"
            /\ frame = <<>>
            /\ before = NoEnter
            /\ call = NoCall
            /\ quit_times = 0
            /\ should_quit = FALSE
            /\ snapshot = <<>>
            /\ quits = 0

Move(direction) ==
    Becomes(handle_command(self, [kind |-> "Move", arg |-> direction]), direction)

Resize(to) ==
    Becomes(handle_command(self, [kind |-> "Resize", arg |-> to]), "Resize")

Insert(character) ==
    /\ CharCount(buffer.lines) < MaxChars
    /\ text_location.line_index = height(buffer) => height(buffer) < MaxLines
    /\ Becomes(handle_command(self, [kind |-> "Insert", arg |-> character]), "Insert")

Delete ==
    Becomes(handle_command(self, [kind |-> "Delete", arg |-> "none"]), "Delete")

Backspace ==
    Becomes(handle_command(self, [kind |-> "Backspace", arg |-> "none"]), "Backspace")

Enter ==
    /\ height(buffer) < MaxLines
    /\ Becomes(handle_command(self, [kind |-> "Enter", arg |-> "none"]), "Enter")

Next ==
    \/ \E direction \in Directions : Move(direction)
    \/ \E to \in Sizes : Resize(to)
    \/ \E character \in InsertChars : Insert(character)
    \/ Delete
    \/ Backspace
    \/ Enter

Spec == Init /\ [][Next]_vars

\* --------------------------------------------------------------- the types
TypeOK ==
    /\ buffer.dirty \in BOOLEAN
    /\ needs_redraw \in BOOLEAN
    /\ size \in Sizes
    /\ text_location.line_index \in Nat
    /\ text_location.grapheme_index \in Nat
    /\ scroll_offset.row \in Nat
    /\ scroll_offset.col \in Nat

\* ------------------------------------------------------------ the claims
\* the cursor's display position lies in the window of View v:
\* scroll_offset <= (row, col) < scroll_offset + size on both axes
InView(v) ==
    LET p == text_location_to_position(v)
    IN  /\ v.scroll_offset.row <= p.row
        /\ p.row < v.scroll_offset.row + v.size.height
        /\ v.scroll_offset.col <= p.col
        /\ p.col < v.scroll_offset.col + v.size.width

\* the viewport has at least one row and one column
HasRoom == size.height > 0 /\ size.width > 0

\* C1: after every command (a Move, Insert, Delete, Backspace, Enter or
\* Resize) the cursor's display position lies within the window on both
\* axes.  Stated for the viewports that have a cell at all, so that a
\* violation is one the commands cause.
C1_CursorInViewAfterEveryCommand ==
    (last # "New" /\ HasRoom) => InView(self)

\* C2, as claimed: after a Move or a Resize the cursor's display position
\* lies within the window on both axes, whatever the viewport size.
C2_InViewAfterMoveResize_AnySize ==
    last \in Directions \cup {"Resize"} => InView(self)

\* C2, amended: after a Move or a Resize, in a viewport of at least one row
\* and one column, the cursor's display position lies within the window on
\* both axes.
C2_InViewAfterMoveResize ==
    (last \in Directions \cup {"Resize"} /\ HasRoom) => InView(self)

\* C2 witness: a Move has scrolled the window down and right, and the cursor
\* is in it
C2_Witness ==
    /\ last \in Directions
    /\ HasRoom
    /\ scroll_offset.row > 0
    /\ scroll_offset.col > 0
    /\ InView(self)

\* C3: in every reachable state 0 <= line_index <= height() and
\* 0 <= grapheme_index <= grapheme_count() of the line at line_index, which
\* is 0 when line_index = height() and no line is there.
C3_CursorLocationValid ==
    /\ text_location.line_index \in 0..height(buffer)
    /\ text_location.grapheme_index \in
           0..count_at(buffer.lines, text_location.line_index)

\* C3 witness: the cursor is at the append position below a document whose
\* last line is not empty
C3_Witness ==
    /\ height(buffer) > 0
    /\ text_location.line_index = height(buffer)
    /\ text_location.grapheme_index = 0
    /\ count_at(buffer.lines, height(buffer) - 1) > 0

\* the Location (line_index l, grapheme_index g)
Loc(l, g) == [grapheme_index |-> g, line_index |-> l]

\* C4: MoveLeft decrements grapheme_index when it is positive; otherwise,
\* when line_index > 0, it moves to the end of the previous line; at (0, 0)
\* it leaves the cursor location unchanged.
C4_MoveLeft ==
    [][last' = "Left" =>
        LET l == text_location.line_index
            g == text_location.grapheme_index
        IN  text_location' =
                IF g > 0 THEN Loc(l, g - 1)
                ELSE IF l > 0 THEN Loc(l - 1, count_at(buffer.lines, l - 1))
                ELSE text_location]_vars

\* C5: MoveRight increments grapheme_index when it is below grapheme_count()
\* of the current line; otherwise it moves to grapheme_index 0 of the next
\* line, line_index never exceeding height(): at the append position the
\* cursor stays where it is.
C5_MoveRight ==
    [][last' = "Right" =>
        LET l == text_location.line_index
            g == text_location.grapheme_index
        IN  /\ text_location' =
                   IF g < count_at(buffer.lines, l) THEN Loc(l, g + 1)
                   ELSE Loc(Min(l + 1, height(buffer)), 0)
            /\ text_location'.line_index <= height(buffer)
            /\ l = height(buffer) => text_location' = text_location]_vars

\* C5 witness: MoveRight has wrapped from the end of a line to column 0 of
\* the next line of the document
C5_Witness ==
    /\ last = "Right"
    /\ text_location.grapheme_index = 0
    /\ text_location.line_index > 0
    /\ text_location.line_index < height(buffer)

\* C6: MoveUp(n) and MoveDown(n), with n = viewport rows - 1 for PageUp and
\* PageDown, change line_index by n saturating at 0 and height(), then set
\* grapheme_index to min(old grapheme_index, grapheme_count() of the new
\* line): a shorter line clamps the index to its length, not to 0, and a
\* line at least as long keeps it.
C6_MoveUpDown ==
    [][last' \in {"Up", "Down", "PageUp", "PageDown"} =>
        LET l == text_location.line_index
            g == text_location.grapheme_index
            n == IF last' \in {"Up", "Down"} THEN 1 ELSE saturating_sub(size.height, 1)
            new_l == IF last' \in {"Up", "PageUp"} THEN Max(l - n, 0)
                     ELSE Min(l + n, height(buffer))
        IN  text_location' = Loc(new_l, Min(g, count_at(buffer.lines, new_l)))]_vars

\* C6 witness: MoveDown has arrived at the end of a non-empty line that is
\* shorter than the line above it
C6_Witness ==
    /\ last = "Down"
    /\ text_location.line_index > 0
    /\ text_location.line_index < height(buffer)
    /\ text_location.grapheme_index > 0
    /\ text_location.grapheme_index = count_at(buffer.lines, text_location.line_index)
    /\ count_at(buffer.lines, text_location.line_index - 1) > text_location.grapheme_index

\* the canonical text of every line
Texts(lines) == [i \in 1..Len(lines) |-> to_string(lines[i])]

\* C7, as claimed: from every cursor location other than (0, 0),
\* DeleteBackward removes the grapheme left of the cursor, the grapheme
\* count of the line dropping by one, or, at column 0 with line_index > 0,
\* joins the position with the previous line, the height dropping by one;
\* the cursor ends right before the removed element.
C7_DeleteBackward_AsClaimed ==
    [][(last' = "Backspace" /\ text_location # Loc(0, 0)) =>
        LET l == text_location.line_index
            g == text_location.grapheme_index
        IN  IF g > 0
            THEN /\ height(buffer') = height(buffer)
                 /\ count_at(buffer'.lines, l) = count_at(buffer.lines, l) - 1
                 /\ text_location' = Loc(l, g - 1)
            ELSE /\ height(buffer') = height(buffer) - 1
                 /\ text_location' = Loc(l - 1, count_at(buffer.lines, l - 1))]_vars

\* C7, amended: from every cursor location other than (0, 0) on a line of
\* the document (line_index < height()), DeleteBackward removes the text of
\* the grapheme left of the cursor from that line and nothing else, the
\* grapheme count of the line dropping by at least one (by more when the
\* neighbours of the removed grapheme then form one cluster), or, at column
\* 0 with line_index > 0, replaces the previous line and this one by their
\* concatenation, the height dropping by exactly one; the cursor ends where
\* the removed element was.  At the append position (line_index = height())
\* no text is removed and the cursor moves to the end of the last line.
C7_DeleteBackward ==
    [][(last' = "Backspace" /\ text_location # Loc(0, 0)) =>
        LET l == text_location.line_index
            g == text_location.grapheme_index
            old == buffer.lines
            new == buffer'.lines
        IN  IF l >= Len(old)
            THEN /\ new = old
                 /\ text_location' = Loc(l - 1, count_at(old, l - 1))
            ELSE IF g > 0
            THEN /\ Texts(new) = [Texts(old) EXCEPT ![l + 1] =
                        to_string(SubSeq(old[l + 1], 1, g - 1))
                        \o to_string(SubSeq(old[l + 1], g + 1, Len(old[l + 1])))]
                 /\ count_at(new, l) <= count_at(old, l) - 1
                 /\ text_location' = Loc(l, g - 1)
            ELSE /\ Len(new) = Len(old) - 1
                 /\ Texts(new) = RemoveAt([Texts(old) EXCEPT ![l] =
                                               @ \o to_string(old[l + 1])], l)
                 /\ text_location' = Loc(l - 1, count_at(old, l - 1))]_vars

\* C7 witness: DeleteBackward has left the cursor inside a line, between two
\* graphemes, where only the removal of a grapheme or of a line break puts it
C7_Witness ==
    /\ last = "Backspace"
    /\ text_location.grapheme_index > 0
    /\ text_location.grapheme_index
           < count_at(buffer.lines, text_location.line_index)

\* C8: DeleteBackward with the cursor at (0, 0) changes nothing, in the
\* empty document as in any other: the lines, the dirty flag, the cursor
\* location and the scroll offset stay, and no index goes negative.
C8_DeleteBackwardAtStart ==
    [][(last' = "Backspace" /\ text_location = Loc(0, 0)) =>
        /\ buffer' = buffer
        /\ text_location' = text_location
        /\ scroll_offset' = scroll_offset
        /\ text_location'.line_index >= 0
        /\ text_location'.grapheme_index >= 0]_vars

\* C8 witness: DeleteBackward has acted on the empty document that was
\* never edited
C8_Witness ==
    /\ last = "Backspace"
    /\ is_empty(buffer)
    /\ ~buffer.dirty
    /\ text_location = Loc(0, 0)

\* C9: after Insert(char) the cursor is one grapheme further right if the
\* grapheme count of the target line increased (a line appended at
\* line_index = height() included), and is where it was if the count did
\* not increase.
C9_InsertAdvances ==
    [][last' = "Insert" =>
        LET l == text_location.line_index
            g == text_location.grapheme_index
        IN  text_location' =
                IF count_at(buffer'.lines, l) > count_at(buffer.lines, l)
                THEN Loc(l, g + 1)
                ELSE text_location]_vars

\* C9 witness: Insert has joined an "L" to the cluster at the cursor, which
\* stays at column 0 in front of it
C9_Witness ==
    /\ last = "Insert"
    /\ text_location = Loc(0, 0)
    /\ height(buffer) > 0
    /\ buffer.lines[1] # <<>>
    /\ buffer.lines[1][1].grapheme = <<"L", "L">>

\* C10: after InsertNewline from any cursor location (l, g), the append
\* position l = height() included, the cursor is at column 0 of the line
\* InsertNewline created: grapheme_index = 0 and line_index is the index of
\* the new line, which is a line of the document.
C10_InsertNewlineLandsOnNewLine ==
    [][last' = "Enter" =>
        LET l == text_location.line_index
            new_line == IF l = height(buffer) THEN l ELSE l + 1
        IN  /\ text_location' = Loc(new_line, 0)
            /\ text_location'.line_index < height(buffer')]_vars

\* ------------------------------------------------- typing: Enter, then Insert
\* The commands of a View with a record of the last Enter: `before` holds
\* the line texts the Enter found, whether the cursor stood at the end of
\* the last line, and the character of the Insert that followed at once
\* (step 1: Enter handled, step 2: Enter then Insert handled).

\* the cursor of View v stands at the end of the last line of a document
\* that has a line
AtEndOfLastLine(v) ==
    /\ height(v.buffer) >= 1
    /\ v.text_location.line_index = height(v.buffer) - 1
    /\ v.text_location.grapheme_index =
           grapheme_count(v.buffer.lines[height(v.buffer)])

\* the variables take the fields of View v after command `name`, and the
\* record of the last Enter becomes `enter`
Typed(v, name, enter) ==
    /\ buffer' = v.buffer
    /\ needs_redraw' = v.needs_redraw
    /\ size' = v.size
    /\ text_location' = v.text_location
    /\ scroll_offset' = v.scroll_offset
    /\ last' = name
    /\ before' = enter
    /\ UNCHANGED <<disk, result, message, frame>>
    /\ UNCHANGED apart

TypeMove(direction) ==
    Typed(handle_command(self, [kind |-> "Move", arg |-> direction]), "Move", NoEnter)

TypeEnter ==
    /\ height(buffer) < MaxLines
    /\ Typed(handle_command(self, [kind |-> "Enter", arg |-> "none"]), "Enter",
             [NoEnter EXCEPT !.step = 1, !.texts = Texts(buffer.lines),
                             !.at_end = AtEndOfLastLine(self)])

TypeInsert(character) ==
    /\ CharCount(buffer.lines) < MaxChars
    /\ text_location.line_index = height(buffer) => height(buffer) < MaxLines
    /\ Typed(handle_command(self, [kind |-> "Insert", arg |-> character]), "Insert",
             IF before.step = 1
             THEN [before EXCEPT !.step = 2, !.typed = character]
             ELSE NoEnter)

TypeNext ==
    \/ \E direction \in Directions : TypeMove(direction)
    \/ TypeEnter
    \/ \E character \in InsertChars : TypeInsert(character)

SpecType == Init /\ [][TypeNext]_vars

\* C11: when the cursor stands at the end of the last line of a document
\* that has a line, Enter followed by Insert(c) gives a document with one
\* more line: every earlier line has the text it had, and the new last line
\* has the text c and nothing else.
C11_EnterThenInsertAtEnd ==
    before.step = 2 /\ before.at_end =>
        /\ height(buffer) = Len(before.texts) + 1
        /\ Texts(buffer.lines) = before.texts \o << <<before.typed>> >>

\* an Enter at the end of a last line that holds text, then an Insert
C11_Witness ==
    /\ before.step = 2
    /\ before.at_end
    /\ before.texts[Len(before.texts)] # <<>>
    /\ last = "Insert"

\* --------------------------------------------- the Buffer, called directly
\* Buffer::insert_char, delete and insert_newline applied to any Location,
\* also one past the end of a line or below the last line, which a View
\* never passes.  text_location holds the Location of the last call, and
\* `before` the line texts it found and the character it was given.

\* the Locations a call may name: up to one line below the append position
\* and one grapheme past the longest line
Locations == [grapheme_index : 0..(MaxChars + 1), line_index : 0..(MaxLines + 1)]

\* the Buffer becomes buf after the call `name` with Location at (and the
\* character, if the call takes one)
Called(buf, at, name, character) ==
    /\ buffer' = buf
    /\ text_location' = at
    /\ last' = name
    /\ before' = [NoEnter EXCEPT !.step = 1, !.texts = Texts(buffer.lines),
                                 !.typed = character]
    /\ UNCHANGED <<needs_redraw, size, scroll_offset, disk, result, message, frame>>
    /\ UNCHANGED apart

BufferInit ==
    /\ buffer = Buffer_default
    /\ needs_redraw = TRUE
    /\ size = [height |-> 0, width |-> 0]
    /\ text_location = Location_default
    /\ scroll_offset = Position_default
    /\ last = "New"
    /\ disk = NoFile
    /\ result = "none"
    /\ message = "none"
    /\ frame = <<>>
    /\ before = NoEnter
    /\ call = NoCall
    /\ quit_times = 0
    /\ should_quit = FALSE
    /\ snapshot = <<>>
    /\ quits = 0

BufferInsertChar(character, at) ==
    /\ CharCount(buffer.lines) < MaxChars
    /\ at.line_index = height(buffer) => height(buffer) < MaxLines
    /\ Called(Buffer_insert_char(buffer, character, at), at, "insert_char", character)

BufferDelete(at) ==
    Called(Buffer_delete(buffer, at), at, "delete", "none")

BufferInsertNewline(at) ==
    /\ height(buffer) < MaxLines
    /\ Called(Buffer_insert_newline(buffer, at), at, "insert_newline", "none")

BufferNext ==
    \/ \E character \in InsertChars, at \in Locations : BufferInsertChar(character, at)
    \/ \E at \in Locations : BufferDelete(at)
    \/ \E at \in Locations : BufferInsertNewline(at)

SpecBuffer == BufferInit /\ [][BufferNext]_vars

\* every line of `new` but the one with index l is the line of `old`
OthersUnchanged(old, new, l) ==
    /\ Len(new) = Len(old)
    /\ \A i \in 1..Len(old) : i # l + 1 => new[i] = old[i]

\* the text of `line` with the code points `piece` put in before cluster g,
\* or at the end when g is at or past the end
TextWith(line, piece, g) ==
    LET k == Min(g, Len(line))
    IN  to_string(SubSeq(line, 1, k)) \o piece \o to_string(SubSeq(line, k + 1, Len(line)))

\* C12: Buffer::insert_char(c, loc).  At loc.line_index = height() a new
\* line holding only c is appended; at loc.line_index < height() c goes
\* into that line and the height stays; in both cases dirty is true
\* afterwards and every other line is unchanged.  At loc.line_index >
\* height() neither the lines nor the dirty flag change.
C12_BufferInsertChar ==
    [][last' = "insert_char" =>
        LET at == text_location'
            c  == before'.typed
            h  == height(buffer)
        IN  /\ at.line_index = h =>
                   /\ Texts(buffer'.lines) = Append(Texts(buffer.lines), <<c>>)
                   /\ \A i \in 1..h : buffer'.lines[i] = buffer.lines[i]
                   /\ height(buffer') = h + 1
                   /\ buffer'.dirty
            /\ at.line_index < h =>
                   /\ to_string(buffer'.lines[at.line_index + 1]) =
                          TextWith(buffer.lines[at.line_index + 1], <<c>>,
                                   at.grapheme_index)
                   /\ OthersUnchanged(buffer.lines, buffer'.lines, at.line_index)
                   /\ buffer'.dirty
            /\ at.line_index > h => buffer' = buffer
    ]_vars

\* insert_char has put a character between two graphemes of a line of a
\* two-line document
C12_Witness ==
    /\ last = "insert_char"
    /\ Len(before.texts) >= 2
    /\ text_location.line_index < Len(before.texts)
    /\ text_location.grapheme_index > 0
    /\ Len(before.texts[text_location.line_index + 1]) > text_location.grapheme_index
    /\ Texts(buffer.lines) # before.texts

\* C13: Buffer::delete(loc).  With loc.grapheme_index inside the line that
\* one grapheme is removed; at or past the end of a line that has a next
\* line, the next line's text is appended and the next line is removed
\* (one line fewer, the others in order and unchanged); at or past the end
\* of the last line, or with loc.line_index >= height(), neither the lines
\* nor the dirty flag change.
C13_BufferDelete ==
    [][last' = "delete" =>
        LET at == text_location'
            l  == at.line_index
            g  == at.grapheme_index
            h  == height(buffer)
        IN  IF l < h /\ g < grapheme_count(buffer.lines[l + 1])
            THEN LET line == buffer.lines[l + 1]
                 IN  /\ to_string(buffer'.lines[l + 1]) =
                            to_string(SubSeq(line, 1, g))
                            \o to_string(SubSeq(line, g + 2, Len(line)))
                     /\ OthersUnchanged(buffer.lines, buffer'.lines, l)
                     /\ buffer'.dirty
            ELSE IF l < h /\ l + 1 < h
            THEN /\ height(buffer') = h - 1
                 /\ to_string(buffer'.lines[l + 1]) =
                        to_string(buffer.lines[l + 1]) \o to_string(buffer.lines[l + 2])
                 /\ \A i \in 1..(h - 1) :
                        i # l + 1 => buffer'.lines[i] =
                                         buffer.lines[IF i <= l THEN i ELSE i + 1]
                 /\ buffer'.dirty
            ELSE buffer' = buffer
    ]_vars

\* delete has joined the first line of a document with the text of the
\* line below it
C13_Witness ==
    /\ last = "delete"
    /\ text_location.line_index = 0
    /\ Len(before.texts) = height(buffer) + 1
    /\ before.texts[1] # <<>>
    /\ before.texts[2] # <<>>

\* C14: Buffer::insert_newline(loc) with loc.line_index <= height() makes
\* the document one line taller and dirty.  At loc.line_index = height()
\* an empty line is appended; otherwise the line keeps the graphemes below
\* loc.grapheme_index and a new line right after it holds the rest, so the
\* two together are the original line, and every other line is unchanged.
C14_BufferInsertNewline ==
    [][last' = "insert_newline" /\ text_location'.line_index <= height(buffer) =>
        LET at == text_location'
            l  == at.line_index
            h  == height(buffer)
        IN  /\ height(buffer') = h + 1
            /\ buffer'.dirty
            /\ l = h => buffer'.lines = Append(buffer.lines, <<>>)
            /\ l < h =>
                   LET line == buffer.lines[l + 1]
                       k    == Min(at.grapheme_index, Len(line))
                   IN  /\ buffer'.lines[l + 1] = SubSeq(line, 1, k)
                       /\ buffer'.lines[l + 2] = SubSeq(line, k + 1, Len(line))
                       /\ buffer'.lines[l + 1] \o buffer'.lines[l + 2] = line
                       /\ \A i \in 1..h :
                              i # l + 1 => buffer'.lines[IF i <= l THEN i ELSE i + 1] =
                                               buffer.lines[i]
    ]_vars

\* insert_newline has split the first line of a document between two of
\* its graphemes
C14_Witness ==
    /\ last = "insert_newline"
    /\ text_location.line_index = 0
    /\ height(buffer) = Len(before.texts) + 1
    /\ text_location.grapheme_index = grapheme_count(buffer.lines[1])
    /\ buffer.lines[1] # <<>>
    /\ buffer.lines[2] # <<>>

\* ------------------------------------------------------ the file: load, save
\* The editor started with or without a file name, then Insert, Enter and
\* Save.  `disk` is the file of that name, `result` what the last load or
\* save returned.

\* most code points a file holds when the editor starts
MaxFile == 3

\* the code points of a file: a letter, a carriage return, a line feed
FileChars == {"a", "CR", "LF"}

\* the texts a file may hold at startup
FileTexts == UNION {[1..n -> FileChars] : n \in 0..MaxFile}

\* the files a name given at startup may stand for
Files == {NoFile} \cup {[exists |-> TRUE, text |-> t] : t \in FileTexts}

\* the terminal the editor of this section starts in: the largest one
FullSize == [height |-> MaxRows, width |-> MaxCols]

FileInit ==
    \E terminal_size \in {FullSize}, args \in {<<>>, <<"f">>}, file \in Files, io_ok \in BOOLEAN :
        LET editor == Editor_new(terminal_size, args, file, io_ok)
        IN  /\ args = <<>> => file = NoFile /\ io_ok
            /\ ~file.exists => io_ok
            /\ buffer = editor.view.buffer
            /\ needs_redraw = editor.view.needs_redraw
            /\ size = editor.view.size
            /\ text_location = editor.view.text_location
            /\ scroll_offset = editor.view.scroll_offset
            /\ last = "New"
            /\ disk = file
            /\ result = editor.result
            /\ message = editor.message
            /\ frame = <<>>
            /\ before = NoEnter
            /\ call = NoCall
            /\ quit_times = 0
            /\ should_quit = FALSE
            /\ snapshot = <<>>
            /\ quits = 0

\* the variables take the fields of View v after command `name`; the
\* file, the result and the message bar stay
Edited(v, name) ==
    /\ buffer' = v.buffer
    /\ needs_redraw' = v.needs_redraw
    /\ size' = v.size
    /\ text_location' = v.text_location
    /\ scroll_offset' = v.scroll_offset
    /\ last' = name
    /\ result' = "none"
    /\ UNCHANGED <<disk, message, frame, before>>
    /\ UNCHANGED apart

FileInsert(character) ==
    /\ CharCount(buffer.lines) < MaxChars
    /\ text_location.line_index = height(buffer) => height(buffer) < MaxLines
    /\ Edited(handle_command(self, [kind |-> "Insert", arg |-> character]), "Insert")

FileEnter ==
    /\ height(buffer) < MaxLines
    /\ Edited(handle_command(self, [kind |-> "Enter", arg |-> "none"]), "Enter")

\* Editor::handle_save over View::save over Buffer::save
FileSave(create_ok, lines_ok) ==
    LET saved == Buffer_save(buffer, disk, create_ok, lines_ok)
    IN  /\ buffer' = saved.buf
        /\ disk' = saved.file
        /\ result' = saved.result
        /\ message' = IF saved.result = "Ok" THEN "File saved successfully."
                      ELSE "Error writing file!"
        /\ last' = "Save"
        /\ UNCHANGED <<needs_redraw, size, text_location, scroll_offset, frame, before>>
        /\ UNCHANGED apart

FileNext ==
    \/ \E character \in InsertChars : FileInsert(character)
    \/ FileEnter
    \/ \E create_ok \in BOOLEAN, lines_ok \in 0..MaxLines : FileSave(create_ok, lines_ok)

SpecFile == FileInit /\ [][FileNext]_vars

\* C15: save() on a document with no file identity fails with an I/O error
\* (it does not return success) and leaves the lines and the dirty flag as
\* they were.
C15_SaveWithoutPathFails ==
    [][last' = "Save" /\ buffer.file_info.path = "None" =>
        /\ result' = "Err"
        /\ buffer'.lines = buffer.lines
        /\ buffer'.dirty = buffer.dirty
    ]_vars

\* C16: whenever save() returns success the dirty flag is false right
\* afterwards and the text of every line, each followed by one line
\* terminator, has been written in order; whenever it returns an error
\* the dirty flag and the lines are unchanged.
C16_SaveResult ==
    [][last' = "Save" =>
        /\ result' = "Ok" =>
               /\ ~buffer'.dirty
               /\ disk'.exists
               /\ disk'.text = written(buffer.lines)
        /\ result' = "Err" =>
               /\ buffer'.dirty = buffer.dirty
               /\ buffer'.lines = buffer.lines
    ]_vars

\* C17: load, save, load is stable after the first load: for the document
\* D1 loaded from any text, loading what save(D1) wrote gives the line
\* texts of D1, and saving that again writes the same bytes.
C17_RoundTripStable ==
    [][last = "New" /\ result = "Ok" /\ last' = "Save" /\ result' = "Ok" =>
        LET again == Buffer_load("f", disk', TRUE).buf
        IN  /\ Texts(again.lines) = Texts(buffer.lines)
            /\ written(again.lines) = disk'.text
    ]_vars

RenderSizes == Sizes \cup {[height |-> 1, width |-> WelcomeLen + 3]}

RenderInit ==
    \E terminal_size \in RenderSizes :
        LET v == View_new(terminal_size)
        IN  /\ buffer = v.buffer
            /\ needs_redraw = v.needs_redraw
            /\ size = v.size
            /\ text_location = v.text_location
            /\ scroll_offset = v.scroll_offset
            /\ last = "New"
            /\ disk = NoFile
            /\ result = "none"
            /\ message = "none"
            /\ frame = <<>>
            /\ before = NoEnter
            /\ call = NoCall
            /\ quit_times = 0
            /\ should_quit = FALSE
            /\ snapshot = <<>>
            /\ quits = 0

\* the variables take the fields of View v after the step `name`, which
\* printed the rows `printed`
Shown(v, name, printed) ==
    /\ buffer' = v.buffer
    /\ needs_redraw' = v.needs_redraw
    /\ size' = v.size
    /\ text_location' = v.text_location
    /\ scroll_offset' = v.scroll_offset
    /\ last' = name
    /\ frame' = printed
    /\ UNCHANGED <<disk, result, message, before>>
    /\ UNCHANGED apart

ShowMove(direction) ==
    Shown(handle_command(self, [kind |-> "Move", arg |-> direction]), "Move", <<>>)

ShowInsert(character) ==
    /\ CharCount(buffer.lines) < MaxChars
    /\ text_location.line_index = height(buffer) => height(buffer) < MaxLines
    /\ Shown(handle_command(self, [kind |-> "Insert", arg |-> character]), "Insert", <<>>)

ShowEnter ==
    /\ height(buffer) < MaxLines
    /\ Shown(handle_command(self, [kind |-> "Enter", arg |-> "none"]), "Enter", <<>>)

Render ==
    LET drawn == render(self)
    IN  Shown(drawn.view, "Render", drawn.printed)

RenderNext ==
    \/ \E direction \in Directions : ShowMove(direction)
    \/ \E character \in InsertChars : ShowInsert(character)
    \/ ShowEnter
    \/ Render

SpecRender == RenderInit /\ [][RenderNext]_vars

\* C19: rendering is gated by the redraw flag.  A call of render while the
\* flag is clear prints nothing and changes nothing; every call that draws
\* the rows leaves the flag clear; so of two calls in a row, with no
\* command between them, at most one draws.
C19_RenderGated ==
    [][last' = "Render" =>
        /\ ~needs_redraw => /\ frame' = <<>>
                            /\ UNCHANGED <<buffer, needs_redraw, size,
                                            text_location, scroll_offset>>
        /\ frame' # <<>> => ~needs_redraw'
        /\ last = "Render" /\ frame # <<>> => frame' = <<>>
    ]_vars

\* render was called on a document with lines while the flag was clear
C19_Witness ==
    /\ last = "Render"
    /\ frame = <<>>
    /\ ~needs_redraw
    /\ buffer.lines # <<>>

\* the product banner in full: the filler glyph, the padding that centres
\* the text in `width` columns, and the text
Banner(width) ==
    <<"~">> \o [i \in 1..(saturating_sub(saturating_sub(width, WelcomeLen), 1) \div 2) |-> " "]
    \o welcome_message

\* the row of the banner in a viewport of `rows` rows
BannerRow(rows) == rows \div 2

\* row r of a frame of the View v shows the slice [scroll_offset.col,
\* scroll_offset.col + cols) of line r + scroll_offset.row if there is such
\* a line; else the banner if `banner` holds; else the filler glyph
RowShows(row, v, r, banner) ==
    IF r + v.scroll_offset.row < height(v.buffer)
    THEN row = get_visible_graphemes(v.buffer.lines[r + v.scroll_offset.row + 1],
                                     v.scroll_offset.col,
                                     v.scroll_offset.col + v.size.width)
    ELSE IF banner
    THEN row = Banner(v.size.width)
    ELSE row = <<"~">>

\* C20 as claimed: a drawn frame shows, for each row r of the viewport, the
\* visible slice of line r + scroll_offset.row if there is such a line;
\* else the banner if and only if the document is empty and r is the
\* banner row; else the filler glyph.
C20_Frame_AsClaimed ==
    [][last' = "Render" /\ frame' # <<>> =>
        /\ Len(frame') = size.height
        /\ \A r \in 0..(size.height - 1) :
               RowShows(frame'[r + 1], self, r,
                        is_empty(buffer) /\ r = BannerRow(size.height))
    ]_vars

\* C20: a drawn frame shows, for each row r of the viewport, the visible
\* slice of line r + scroll_offset.row if there is such a line; else the
\* banner if and only if the document is empty, r is the banner row and
\* the viewport is wider than the banner text; else the filler glyph.  A
\* document with a line never shows the banner.
C20_Frame ==
    [][last' = "Render" /\ frame' # <<>> =>
        /\ Len(frame') = size.height
        /\ \A r \in 0..(size.height - 1) :
               RowShows(frame'[r + 1], self, r,
                        /\ is_empty(buffer)
                        /\ r = BannerRow(size.height)
                        /\ size.width > WelcomeLen)
        /\ ~is_empty(buffer) =>
               \A r \in 0..(size.height - 1) : frame'[r + 1] # Banner(size.width)
    ]_vars

\* a frame of several rows was drawn for a document with lines, scrolled
\* to the right, with the filler glyph below the last line
C20_Witness ==
    /\ last = "Render"
    /\ Len(frame) >= 2
    /\ scroll_offset.col > 0
    /\ height(buffer) >= 1
    /\ frame[1] # <<>>
    /\ frame[Len(frame)] = <<"~">>

\* the offset that brings coordinate p into the window of `extent` cells at
\* `offset` with the least motion
LeastMotion(offset, p, extent) ==
    IF p < offset THEN p
    ELSE IF p >= offset + extent THEN p - extent + 1
    ELSE offset

\* the display position of the cursor
Cursor == text_location_to_position(self)

\* C21: scroll-into-view moves each axis on its own and no further than
\* needed.  A coordinate below the offset becomes the offset; a coordinate
\* at or past offset + extent gives the offset coordinate - extent + 1;
\* otherwise the offset stays; and whenever an offset changes the redraw
\* flag is set.  Stated for Move and Enter, which always end in the scroll
\* step, with the cursor where the command has put it.
C21_ScrollLeastMotion ==
    [][last' \in {"Move", "Enter"} =>
        /\ scroll_offset'.row = LeastMotion(scroll_offset.row, Cursor'.row, size.height)
        /\ scroll_offset'.col = LeastMotion(scroll_offset.col, Cursor'.col, size.width)
        /\ scroll_offset' # scroll_offset => needs_redraw'
    ]_vars

\* a move has scrolled a drawn view of several columns to the right, as far
\* as the cursor needs and no further; the frame has not been drawn again
C21_Witness ==
    /\ last = "Move"
    /\ size.width >= 2
    /\ scroll_offset.col > 0
    /\ Cursor.col = scroll_offset.col + size.width - 1
    /\ needs_redraw
    /\ frame = <<>>

\* ----------------------------------------------- the Line, called directly
\* The methods of one Line called with any argument.  `call` records the
\* last call: its name, the Line after it (line) and, when the call can
\* change the Line, the Line before it (was) and the name of the call
\* before it (prev), its arguments (at: an index or the start
\* of a range, to: the end of the range, character, tail: the other Line
\* of append) and what it returned (tail: the Line split returns, ret: the
\* pushes of get_visible_graphemes, width: the sum of width_until).

\* the texts a Line is made from
LineTexts == UNION {[1..n -> Chars] : n \in 0..MaxChars}

\* the indices a call may name: up to one past the longest line
LineIndices == 0..(MaxChars + 1)

\* the display columns a range may name: past the widest line
Columns == 0..(MaxChars + 2)

\* the record of the call `name` that reads the Line `line`
Read(name, line) ==
    [NoCall EXCEPT !.name = name, !.line = line]

\* the record of the call `name` that leaves the Line `line`
Call(name, line) ==
    [Read(name, line) EXCEPT !.prev = call.name, !.was = call.line]

\* the variables outside this section
NotLine == <<buffer, needs_redraw, size, text_location, scroll_offset, last,
             disk, result, message, frame, before, quit_times, should_quit,
             snapshot, quits>>

LineInit ==
    /\ \E text \in LineTexts :
           call = [NoCall EXCEPT !.name = "from", !.line = Line_from(text)]
    /\ buffer = Buffer_default
    /\ needs_redraw = TRUE
    /\ size = [height |-> 0, width |-> 0]
    /\ text_location = Location_default
    /\ scroll_offset = Position_default
    /\ last = "New"
    /\ disk = NoFile
    /\ result = "none"
    /\ message = "none"
    /\ frame = <<>>
    /\ before = NoEnter
    /\ quit_times = 0
    /\ should_quit = FALSE
    /\ snapshot = <<>>
    /\ quits = 0

LineInsertChar(character, at) ==
    /\ Len(to_string(call.line)) < MaxChars
    /\ call' = [Call("insert_char", Line_insert_char(call.line, character, at))
                    EXCEPT !.at = at, !.character = character]
    /\ UNCHANGED NotLine

LineDelete(at) ==
    /\ call' = [Call("delete", Line_delete(call.line, at)) EXCEPT !.at = at]
    /\ UNCHANGED NotLine

LineSplit(at) ==
    /\ LET sp == Line_split(call.line, at)
       IN  call' = [Call("split", sp.self) EXCEPT !.at = at, !.tail = sp.ret]
    /\ UNCHANGED NotLine

\* append of the Line the last call returned or was given, or of a Line of
\* one character
LineAppend(other) ==
    /\ Len(to_string(call.line)) + Len(to_string(other)) <= MaxChars
    /\ call' = [Call("append", Line_append(call.line, other)) EXCEPT !.tail = other]
    /\ UNCHANGED NotLine

LineWidthUntil(grapheme_index) ==
    /\ call' = [Read("width_until", call.line)
                    EXCEPT !.at = grapheme_index,
                           !.width = width_until(call.line, grapheme_index)]
    /\ UNCHANGED NotLine

LineVisible(start, end) ==
    /\ call' = [Read("get_visible_graphemes", call.line)
                    EXCEPT !.at = start, !.to = end,
                           !.ret = visible_pushes(call.line, start, end)]
    /\ UNCHANGED NotLine

LineNext ==
    \/ \E character \in Chars, at \in LineIndices : LineInsertChar(character, at)
    \/ \E at \in LineIndices : LineDelete(at)
    \/ \E at \in LineIndices : LineSplit(at)
    \/ LineAppend(call.tail)
    \/ \E character \in Chars : LineAppend(Line_from(<<character>>))
    \/ \E grapheme_index \in LineIndices : LineWidthUntil(grapheme_index)
    \/ \E start \in Columns, end \in Columns : LineVisible(start, end)

SpecLine == LineInit /\ [][LineNext]_vars

\* the width of one push of get_visible_graphemes: 1 for the ellipsis and
\* for a replacement glyph, else the width of the fragment of that text
PushWidth(push) ==
    IF push \in {<<"ellipsis">>, <<"dot">>, <<"box">>} THEN 1
    ELSE IF StrWidth(push) \in {0, 1} THEN 1 ELSE 2

RECURSIVE PushesWidth(_)
PushesWidth(ps) == IF ps = <<>> THEN 0 ELSE PushWidth(Head(ps)) + PushesWidth(Tail(ps))

\* C22: for every line and every display range [start, end) the string
\* get_visible_graphemes returns is at most end - start columns wide,
\* each fragment counted at its own width and each ellipsis as one column;
\* for an empty or inverted range it is the empty string.
C22_VisibleWidth ==
    call.name = "get_visible_graphemes" =>
        /\ call.at >= call.to => call.ret = <<>>
        /\ call.at < call.to => PushesWidth(call.ret) <= call.to - call.at

\* a slice that fills its range, with a wide fragment cut at both edges
C22_Witness ==
    /\ call.name = "get_visible_graphemes"
    /\ Len(call.ret) >= 3
    /\ call.ret[1] = <<"ellipsis">>
    /\ call.ret[Len(call.ret)] = <<"ellipsis">>
    /\ PushesWidth(call.ret) = call.to - call.at

\* the display columns the fragment with index i (from 1) of `line` takes:
\* [from, upto)
Span(line, i) ==
    [from |-> width_until(line, i - 1), upto |-> width_until(line, i)]

\* what the slice [start, end) of `line` is to show, fragment by fragment:
\* nothing for a fragment outside the window, the glyph or its override
\* for one inside, one ellipsis for one that overlaps it in part
Expected(line, start, end) ==
    Flat([i \in 1..Len(line) |->
             LET sp == Span(line, i)
             IN  IF start >= end \/ sp.upto <= start \/ sp.from >= end THEN <<>>
                 ELSE IF sp.from >= start /\ sp.upto <= end
                 THEN IF line[i].replacement # "none"
                      THEN << <<line[i].replacement>> >>
                      ELSE << line[i].grapheme >>
                 ELSE << <<"ellipsis">> >>])

\* C23: get_visible_graphemes emits, from left to right, one item for each
\* fragment that overlaps the window: its glyph or override if it lies
\* inside [start, end), one ellipsis if it overlaps the window in part,
\* and nothing for a fragment outside.
C23_VisibleItems ==
    call.name = "get_visible_graphemes" =>
        call.ret = Expected(call.line, call.at, call.to)

\* a line of two wide fragments sliced over [0, 3): the first glyph, then
\* one ellipsis
C23_Witness ==
    /\ call.name = "get_visible_graphemes"
    /\ call.at = 0
    /\ call.to = 3
    /\ Len(call.line) = 2
    /\ call.line[1].rendered_width = 2
    /\ call.line[2].rendered_width = 2
    /\ call.ret = <<call.line[1].grapheme, <<"ellipsis">> >>

RECURSIVE SumWidths(_)
\* the sum of the widths of all fragments of a line
SumWidths(line) ==
    IF line = <<>> THEN 0 ELSE Head(line).rendered_width + SumWidths(Tail(line))

\* C24: width_until(0) is 0, width_until(grapheme_count()) is the sum of
\* the widths of all fragments, every fragment is 1 or 2 wide, and
\* width_until(k) <= width_until(k + 1) for every k below the count.
C24_WidthUntil ==
    [][call'.name = "width_until" =>
        /\ \A i \in 1..Len(call'.line) : call'.line[i].rendered_width \in {1, 2}
        /\ call'.at = 0 => call'.width = 0
        /\ call'.at = grapheme_count(call'.line) => call'.width = SumWidths(call'.line)
        /\ (call.name = "width_until" /\ call'.at = call.at + 1
            /\ call.at < grapheme_count(call.line)) => call.width <= call'.width
    ]_vars

\* width_until was called with the count of a line that has a replaced
\* fragment and a wide one
C24_Witness ==
    /\ call.name = "width_until"
    /\ call.at = grapheme_count(call.line)
    /\ call.width = 4
    /\ \E i \in 1..Len(call.line) : call.line[i].replacement # "none"
    /\ \E i \in 1..Len(call.line) : call.line[i].rendered_width = 2

C26_InsertThenDelete ==
    [][(/\ call.name = "insert_char"
        /\ call.at <= grapheme_count(call.was)
        /\ call'.name = "delete"
        /\ call'.at = call.at) =>
           to_string(call'.line) = to_string(call.was)
    ]_vars

\* ------------------------------------------------- the Editor's commands
\* Editor::process_command for every command, one command for each turn
\* of the loop of Editor::run, which ends once should_quit is set.
\* `last` is the kind of the command: "Quit", "Resize", "Save", "Edit" or
\* "Move".

\* the fields of the Editor next to its View
editor_self == [quit_times |-> quit_times, should_quit |-> should_quit,
                message |-> message]

QuitInit ==
    LET editor == Editor_new(FullSize, <<>>, NoFile, TRUE)
    IN  /\ buffer = editor.view.buffer
        /\ needs_redraw = editor.view.needs_redraw
        /\ size = editor.view.size
        /\ text_location = editor.view.text_location
        /\ scroll_offset = editor.view.scroll_offset
        /\ last = "New"
        /\ disk = NoFile
        /\ result = editor.result
        /\ message = editor.message
        /\ frame = <<>>
        /\ before = NoEnter
        /\ call = NoCall
        /\ quit_times = 0
        /\ should_quit = FALSE
        /\ snapshot = <<>>
        /\ quits = 0

\* the state after a command that is not Quit: of the Editor `editor`,
\* of the View `v`
Processed(editor, v, kind) ==
    /\ quit_times' = editor.quit_times
    /\ should_quit' = editor.should_quit
    /\ message' = editor.message
    /\ buffer' = v.buffer
    /\ needs_redraw' = v.needs_redraw
    /\ size' = v.size
    /\ text_location' = v.text_location
    /\ scroll_offset' = v.scroll_offset
    /\ last' = kind
    /\ quits' = IF kind = "Resize" THEN quits ELSE 0
    /\ UNCHANGED <<frame, before, call, snapshot>>

QuitCommand ==
    /\ ~should_quit
    /\ LET editor == handle_quit(buffer.dirty, editor_self)
       IN  /\ quit_times' = editor.quit_times
           /\ should_quit' = editor.should_quit
           /\ message' = editor.message
    /\ last' = "Quit"
    /\ quits' = quits + 1
    /\ UNCHANGED <<buffer, needs_redraw, size, text_location, scroll_offset,
                   disk, result, frame, before, call, snapshot>>

ResizeCommand(to) ==
    /\ ~should_quit
    /\ Processed(editor_self, resize(self, to), "Resize")
    /\ UNCHANGED <<disk, result>>

SaveCommand(create_ok, lines_ok) ==
    /\ ~should_quit
    /\ LET saved == Buffer_save(buffer, disk, create_ok, lines_ok)
           editor == reset_quit_times(editor_self)
       IN  /\ Processed([editor EXCEPT !.message =
                             IF saved.result = "Ok" THEN "File saved successfully."
                             ELSE "Error writing file!"],
                        [self EXCEPT !.buffer = saved.buf], "Save")
           /\ disk' = saved.file
           /\ result' = saved.result

EditCommand(command) ==
    /\ ~should_quit
    /\ command.kind = "Insert" =>
           /\ CharCount(buffer.lines) < MaxChars
           /\ text_location.line_index = height(buffer) => height(buffer) < MaxLines
    /\ command.kind = "Enter" => height(buffer) < MaxLines
    /\ Processed(reset_quit_times(editor_self), handle_command(self, command), "Edit")
    /\ UNCHANGED <<disk, result>>

MoveCommand(direction) ==
    /\ ~should_quit
    /\ Processed(reset_quit_times(editor_self),
                 handle_command(self, [kind |-> "Move", arg |-> direction]), "Move")
    /\ UNCHANGED <<disk, result>>

\* the edit commands of a key press
EditCommands ==
    {[kind |-> "Insert", arg |-> "a"]}
        \cup [kind : {"Delete", "Backspace", "Enter"}, arg : {"none"}]

QuitNext ==
    \/ QuitCommand
    \/ \E to \in Sizes : ResizeCommand(to)
    \/ \E create_ok \in BOOLEAN, lines_ok \in BOOLEAN : SaveCommand(create_ok, lines_ok)
    \/ \E command \in EditCommands : EditCommand(command)
    \/ \E direction \in Directions : MoveCommand(direction)

SpecQuit == QuitInit /\ [][QuitNext]_vars

\* C27: should_quit is set on a Quit command only, and only if the
\* document is unmodified at that moment or the Quit is the third of
\* three Quit commands in a row with no Save, Edit or Move command between
\* them (Resize commands between them do not count); every Save, Edit and
\* Move command resets quit_times to 0; quit_times is always 0, 1 or 2;
\* should_quit, once set, is never cleared.
C27_Quit ==
    /\ [](quit_times \in {0, 1, 2})
    /\ [][((should_quit' /\ ~should_quit) =>
                (last' = "Quit" /\ (~buffer.dirty \/ quits' >= 3)))
           /\ (last' \in {"Save", "Edit", "Move"} => quit_times' = 0)
           /\ (should_quit => should_quit')]_vars

\* the third Quit in a row on a modified document, a Resize between the
\* Quit commands: the message still is the warning of the second Quit
C27_Witness ==
    /\ last = "Quit"
    /\ should_quit
    /\ buffer.dirty
    /\ quits = 3
    /\ quit_times = 2
    /\ size # FullSize
    /\ message = warning(1)

\* --------------------------------------------- Enter, then Backspace
\* The commands of a View with a record of the last Enter: `before` holds
\* the line texts and the cursor the Enter found (step 1: Enter handled,
\* step 2: Enter and then Backspace handled).

UndoMove(direction) ==
    Typed(handle_command(self, [kind |-> "Move", arg |-> direction]), "Move", NoEnter)

UndoInsert(character) ==
    /\ CharCount(buffer.lines) < MaxChars
    /\ text_location.line_index = height(buffer) => height(buffer) < MaxLines
    /\ Typed(handle_command(self, [kind |-> "Insert", arg |-> character]), "Insert",
             NoEnter)

UndoEnter ==
    /\ height(buffer) < MaxLines
    /\ Typed(handle_command(self, [kind |-> "Enter", arg |-> "none"]), "Enter",
             [NoEnter EXCEPT !.step = 1, !.texts = Texts(buffer.lines),
                             !.at_end = text_location.line_index = height(buffer),
                             !.location = text_location])

UndoBackspace ==
    Typed(handle_command(self, [kind |-> "Backspace", arg |-> "none"]), "Backspace",
          IF before.step = 1 THEN [before EXCEPT !.step = 2] ELSE NoEnter)

UndoNext ==
    \/ \E direction \in Directions : UndoMove(direction)
    \/ \E character \in InsertChars : UndoInsert(character)
    \/ UndoEnter
    \/ UndoBackspace

SpecUndo == Init /\ [][UndoNext]_vars

\* C29: Enter followed at once by Backspace changes neither the document
\* nor the cursor: from every reachable state, also with the cursor at the
\* append position line_index == height() and in the empty document, the
\* line texts, the line count and the cursor location are those before the
\* two commands.
C29_EnterThenBackspace ==
    before.step = 2 =>
        /\ Texts(buffer.lines) = before.texts
        /\ height(buffer) = Len(before.texts)
        /\ text_location = before.location

\* the same for an Enter with the cursor on a line of the document
EnterThenBackspaceOnALine ==
    before.step = 2 /\ ~before.at_end =>
        /\ Texts(buffer.lines) = before.texts
        /\ text_location = before.location

\* ------------------------------------------------------- the dirty flag
\* The editor started without a file or with a file of one or two lines,
\* then any edit command, any arrow key and Save, which may fail to
\* create the file.
\* `snapshot` holds the line texts at the last load or successful save.

\* the files there may be at startup
DirtyFiles ==
    {NoFile} \cup {[exists |-> TRUE, text |-> text] :
                      text \in {<<"a">>, <<"a", "LF", "a", "LF">>}}

DirtyInit ==
    \E args \in {<<>>, <<"f">>}, file \in DirtyFiles :
        LET editor == Editor_new(FullSize, args, file, TRUE)
        IN  /\ args = <<>> => file = NoFile
            /\ buffer = editor.view.buffer
            /\ needs_redraw = editor.view.needs_redraw
            /\ size = editor.view.size
            /\ text_location = editor.view.text_location
            /\ scroll_offset = editor.view.scroll_offset
            /\ last = "New"
            /\ disk = file
            /\ result = editor.result
            /\ message = editor.message
            /\ frame = <<>>
            /\ before = NoEnter
            /\ call = NoCall
            /\ quit_times = 0
            /\ should_quit = FALSE
            /\ snapshot = Texts(editor.view.buffer.lines)
            /\ quits = 0

DirtyEdit(command) ==
    /\ command.kind = "Insert" =>
           /\ CharCount(buffer.lines) < MaxChars
           /\ text_location.line_index = height(buffer) => height(buffer) < MaxLines
    /\ command.kind = "Enter" => height(buffer) < MaxLines
    /\ Edited(handle_command(self, command), command.kind)

DirtyMove(direction) ==
    Edited(handle_command(self, [kind |-> "Move", arg |-> direction]), "Move")

DirtySave(create_ok, lines_ok) ==
    LET saved == Buffer_save(buffer, disk, create_ok, lines_ok)
    IN  /\ buffer' = saved.buf
        /\ disk' = saved.file
        /\ result' = saved.result
        /\ message' = IF saved.result = "Ok" THEN "File saved successfully."
                      ELSE "Error writing file!"
        /\ last' = "Save"
        /\ snapshot' = IF saved.result = "Ok" THEN Texts(buffer.lines) ELSE snapshot
        /\ UNCHANGED <<needs_redraw, size, text_location, scroll_offset, frame, before>>
        /\ UNCHANGED <<call, quit_times, should_quit, quits>>

DirtyNext ==
    \/ \E command \in EditCommands : DirtyEdit(command)
    \/ \E direction \in {"Left", "Right", "Up", "Down"} : DirtyMove(direction)
    \/ \E create_ok \in BOOLEAN : DirtySave(create_ok, MaxLines)

SpecDirty == DirtyInit /\ [][DirtyNext]_vars

\* C28: in every reachable state, if the dirty flag is false the line
\* texts of the document are those at the last load or successful save
\* (none if neither happened): Insert, DeleteForward, DeleteBackward and
\* InsertNewline cannot change the lines and leave dirty false.
C28_CleanMeansSaved ==
    ~buffer.dirty => Texts(buffer.lines) = snapshot

\* a loaded document was edited and saved, and an edit command that had
\* nothing to delete has left it clean
C28_Witness ==
    /\ last \in {"Delete", "Backspace"}
    /\ ~buffer.dirty
    /\ Len(snapshot) = 2
    /\ disk.exists
    /\ disk.text = written(buffer.lines)
    /\ disk.text # <<"a", "LF", "a", "LF">>

\* C30: Move commands and Resize never modify the document: after a Move
\* in any direction or a Resize the lines, the file identity and the dirty
\* flag are what they were, and after a Resize the cursor location is what
\* it was too.
C30_MoveResizeFrame ==
    [][last' \in Directions \cup {"Resize"} =>
        /\ buffer'.lines = buffer.lines
        /\ buffer'.file_info = buffer.file_info
        /\ buffer'.dirty = buffer.dirty
        /\ last' = "Resize" => text_location' = text_location
    ]_vars

\* a Resize of a view on an edited document, the cursor off the first
\* column, that had to scroll
C30_Witness ==
    /\ last = "Resize"
    /\ buffer.dirty
    /\ text_location.grapheme_index > 0
    /\ scroll_offset.col > 0

====
